---- MODULE Spec2Model ----
(***************************************************************************)
(* A model of pandalytics/cast.py: the dtype-inference and coercion        *)
(* engine (IntCasting, to_boolean, downcast_to_float32_if_unique,          *)
(* cast_dtype and DtypeCasting.cast with its cast_* entry points), and of *)
(* three utilities beside it: safe_partial, cache_to_disk_decorator and    *)
(* create_bday_flag with filter_to_business_dates.                         *)
(*                                                                         *)
(* Numbers.  A numeric cell holds its value as a count of halves, so 1 is  *)
(* 2, 1.5 is 3 and "has no fractional part" is "is even".  TLC's integers  *)
(* have 32 bits, so the widths of the range table are scaled down: a type  *)
(* of b bits in the source has b \div BitScale bits here (UInt8 is 0..3,   *)
(* Int64 is -32768..32767).  The rows, their order, their signedness and   *)
(* the nesting of their ranges are those of the source.  Float64 is exact  *)
(* on the values of the model and Float32 keeps MantBits significant bits. *)
(***************************************************************************)
EXTENDS Integers, Sequences, FiniteSets, TLC

\* ------------------------------------------------------------------ bounds
BitScale == 4
MantBits == 6
MaxNumLen == 2
MaxLen == 3
NRows == 2
MaxCalls == 3
MaxDay == 2
MaxWorld == 1
NDays == 7
MaxSeriesLen == 2

\* ------------------------------------------------------------------- cells
NA == [k |-> "na", n |-> 0, t |-> ""]
Num(n) == [k |-> "num", n |-> n, t |-> ""]
Str(t) == [k |-> "str", n |-> 0, t |-> t]
Bool(b) == [k |-> "bool", n |-> IF b THEN 1 ELSE 0, t |-> ""]
Dt(d) == [k |-> "dt", n |-> d, t |-> ""]

Whole(i) == 2 * i
IsMissing(c) == c.k = "na"

Column(d, v) == [dtype |-> d, vals |-> v]

RECURSIVE Pow2(_)
Pow2(e) == IF e <= 0 THEN 1 ELSE 2 * Pow2(e - 1)

Abs(x) == IF x < 0 THEN -x ELSE x
SetMax(S) == CHOOSE x \in S : \A y \in S : y <= x
SetMin(S) == CHOOSE x \in S : \A y \in S : x <= y

Present(s) == {i \in DOMAIN s.vals : ~IsMissing(s.vals[i])}
MissingAt(s) == {i \in DOMAIN s.vals : IsMissing(s.vals[i])}
NumValues(s) == {s.vals[i].n : i \in Present(s)}

\* -------------------------------------------------------------- IntCasting
\* pandas_dtype, in the order of the rows of df_int_metadata.
IntDtypes == <<"UInt8", "UInt16", "UInt32", "UInt64", "Int8", "Int16", "Int32", "Int64">>
SourceBits == <<8, 16, 32, 64, 8, 16, 32, 64>>
IsSignedRow == <<FALSE, FALSE, FALSE, FALSE, TRUE, TRUE, TRUE, TRUE>>

Bits(i) == SourceBits[i] \div BitScale
\* The columns min_value and max_value of df_int_metadata.
MinValues ==
    [i \in DOMAIN IntDtypes |-> IF IsSignedRow[i] THEN -Pow2(Bits(i) - 1) ELSE 0]
MaxValues ==
    [i \in DOMAIN IntDtypes |->
        IF IsSignedRow[i] THEN Pow2(Bits(i) - 1) - 1 ELSE Pow2(Bits(i)) - 1]
min_value(i) == MinValues[i]
max_value(i) == MaxValues[i]

Rows == DOMAIN IntDtypes
RowOf(d) == CHOOSE i \in Rows : IntDtypes[i] = d
IsIntDtype(d) == \E i \in Rows : IntDtypes[i] = d
IsFloatDtype(d) == d \in {"Float64", "Float32", "float64"}

\* pd.api.types.is_integer_dtype(s) or (is_float_dtype(s) and
\* s.dropna().mod(1).eq(0).all())
IntEligible(s) ==
    \/ IsIntDtype(s.dtype) \/ s.dtype = "int64"
    \/ (IsFloatDtype(s.dtype) /\ \A n \in NumValues(s) : n % 2 = 0)

\* numpy's cast of one value to the integer type of row i: the fraction is
\* dropped and the integer wraps into the width.
WrapTo(n, i) ==
    LET whole == IF n >= 0 THEN n \div 2 ELSE -((-n) \div 2)
        m == Pow2(Bits(i))
        u == whole % m
    IN  Whole(IF IsSignedRow[i] /\ u > max_value(i) THEN u - m ELSE u)

\* s.astype(<integer dtype of row i>): missing cells stay missing.
AsTypeInt(s, i) ==
    Column(IntDtypes[i],
           [j \in DOMAIN s.vals |->
               IF IsMissing(s.vals[j]) THEN NA ELSE Num(WrapTo(s.vals[j].n, i))])

\* A selection that looks at the min alone.
CoveringRowsMinOnly(s) ==
    IF NumValues(s) = {} THEN {}
    ELSE {i \in Rows : Whole(min_value(i)) <= SetMin(NumValues(s))}

\* The rows of df_int_metadata with min_value <= mn and max_value >= mx.  The
\* max and the min of a column without a present value are missing, and a
\* comparison with a missing value is false for every row.
CoveringRows(s) ==
    IF NumValues(s) = {} THEN {}
    ELSE LET mx == SetMax(NumValues(s))
             mn == SetMin(NumValues(s))
         IN  {i \in Rows : Whole(min_value(i)) <= mn /\ Whole(max_value(i)) >= mx}

\* .iloc[-1] of the selection.
LastRow(s) == SetMax(CoveringRows(s))

\* A selection that takes a signed row whenever one covers.
SignedFirstRow(s) ==
    LET signed == {i \in CoveringRows(s) : IsSignedRow[i]}
    IN  IF signed # {} THEN SetMin(signed) ELSE SetMin(CoveringRows(s))

\* .iloc[0] of the selection: its first row in table order.
SmallestRow(s) == SetMin(CoveringRows(s))

RaiseOf(e) == [err |-> e, col |-> Column("", <<>>)]
Return(c) == [err |-> "", col |-> c]

\* A downcast that compares the widths of the current and the selected dtype.
DowncastEligibleByWidth(s) ==
    IF s.dtype = "UInt8" THEN Return(s)
    ELSE IF CoveringRows(s) = {} THEN RaiseOf("IndexError")
    ELSE IF IsIntDtype(s.dtype) /\ SourceBits[RowOf(s.dtype)] = SourceBits[SmallestRow(s)]
         THEN Return(s)
    ELSE IF s.dtype # IntDtypes[SmallestRow(s)]
         THEN Return(AsTypeInt(s, SmallestRow(s)))
         ELSE Return(s)

\* IntCasting.downcast_integer with int_eligible already decided.
DowncastEligible(s) ==
    IF s.dtype = "UInt8" THEN Return(s)
    ELSE IF CoveringRows(s) = {} THEN RaiseOf("IndexError")
    ELSE IF s.dtype # IntDtypes[SmallestRow(s)]
         THEN Return(AsTypeInt(s, SmallestRow(s)))
         ELSE Return(s)

\* IntCasting.downcast_integer on an instance whose int_eligible attribute is
\* ie ("unset" before the first could_be_int).
EligibleAfter(ie, s) == IF ie = "unset" THEN IntEligible(s) ELSE ie = "yes"
downcast_integer(ie, s) ==
    IF ~EligibleAfter(ie, s) THEN Return(s) ELSE DowncastEligible(s)

Flag(b) == IF b THEN "yes" ELSE "no"

\* ----------------------------------------------------- float downcasting
\* The number of significant bits of n.
RECURSIVE BitLen(_)
BitLen(n) == IF n = 0 THEN 0 ELSE 1 + BitLen(n \div 2)

\* A value narrowed to Float32: the significand is rounded to MantBits bits,
\* ties to even.
Float32Of(n) ==
    LET a == Abs(n)
        e == BitLen(a) - MantBits
        q == a \div Pow2(e)
        rem == a % Pow2(e)
        half == Pow2(e - 1)
        up == rem > half \/ (rem = half /\ q % 2 = 1)
        r == (IF up THEN q + 1 ELSE q) * Pow2(e)
    IN  IF e <= 0 THEN n ELSE IF n < 0 THEN -r ELSE r

\* s.astype("Float32")
AsTypeFloat32(s) ==
    Column("Float32",
           [j \in DOMAIN s.vals |->
               IF IsMissing(s.vals[j]) THEN NA ELSE Num(Float32Of(s.vals[j].n))])

\* Series.nunique(): the number of distinct values that are not missing.
nunique(s) == Cardinality({s.vals[i] : i \in Present(s)})

\* The narrowing without its check.
downcast_to_float32_always(s) == AsTypeFloat32(s)

downcast_to_float32_if_unique(s) ==
    IF nunique(AsTypeFloat32(s)) = nunique(s) THEN AsTypeFloat32(s) ELSE s

\* --------------------------------------------------------------- to_boolean
IsBoolDtype(d) == d \in {"boolean", "bool"}

\* Python compares and hashes True as 1 and False as 0, so in a set a bool and
\* the number equal to it are one element.
PyKey(c) == IF c.k = "bool" THEN Num(Whole(c.n)) ELSE c

\* set(s)
PySet(s) == {PyKey(s.vals[i]) : i \in DOMAIN s.vals}

\* s.astype("boolean") of cells that are True/1 or False/0.
AsTypeBoolean(s) ==
    Column("boolean",
           [j \in DOMAIN s.vals |->
               IF IsMissing(s.vals[j]) THEN NA ELSE Bool(PyKey(s.vals[j]).n # 0)])

\* s.eq("True").astype("boolean")
EqTrue(s) ==
    Column("boolean", [j \in DOMAIN s.vals |-> Bool(s.vals[j] = Str("True"))])

\* to_boolean on set(s.dropna()).
to_boolean_dropna(s) ==
    LET present == {PyKey(s.vals[i]) : i \in Present(s)}
    IN  IF IsBoolDtype(s.dtype) THEN s
        ELSE IF present = {PyKey(Bool(TRUE)), PyKey(Bool(FALSE))} THEN AsTypeBoolean(s)
        ELSE IF present = {Str("True"), Str("False")}
             THEN Column("boolean", [j \in DOMAIN s.vals |->
                      IF IsMissing(s.vals[j]) THEN NA ELSE Bool(s.vals[j] = Str("True"))])
        ELSE s

to_boolean(s) ==
    IF IsBoolDtype(s.dtype) THEN s
    ELSE IF Cardinality(PySet(s)) # 2 THEN s
    ELSE IF PySet(s) = {PyKey(Bool(TRUE)), PyKey(Bool(FALSE))} THEN AsTypeBoolean(s)
    ELSE IF PySet(s) = {Str("True"), Str("False")} THEN EqTrue(s)
    ELSE s

\* ------------------------------------------------- the pandas parsers used
\* The texts of the model and what the parsers of pandas make of them.
\* Both parsers read the text "nan" as the missing value (NaN, NaT).
\* The whole numbers tried: the ends of every row of the range table and
\* their neighbours outside it.
IntSample ==
    UNION {{min_value(i) - 1, min_value(i), max_value(i), max_value(i) + 1} : i \in Rows}
\* Numbers with a fraction (1.5, and the least one Float32 cannot hold), and
\* the whole number next to the latter.
FracSample == {3, Pow2(MantBits) + 1}
FloatSample == {Whole(v) : v \in IntSample} \cup FracSample \cup {Pow2(MantBits)}

\* Series.astype("string") of a numeric column writes each present value as
\* Python's str does, digit by digit: an int as its decimal digits, a float
\* with a point and at least one digit after it.
DecimalDigits == "0123456789"
DigitText(d) == SubSeq(DecimalDigits, d + 1, d + 1)
RECURSIVE NatText(_)
NatText(n) == IF n < 10 THEN DigitText(n) ELSE NatText(n \div 10) \o DigitText(n % 10)
IntText(i) == (IF i < 0 THEN "-" ELSE "") \o NatText(Abs(i))
FloatText(h) ==
    (IF h < 0 THEN "-" ELSE "") \o NatText(Abs(h) \div 2)
        \o (IF h % 2 = 0 THEN ".0" ELSE ".5")

\* The number parser of pd.to_numeric on one text: a sign, digits, and
\* perhaps a point and more digits.  A text whose value is not a count of
\* halves is none of the model's.
CharAt(t, i) == SubSeq(t, i, i)
IsDigits(t) == \A i \in 1..Len(t) : \E d \in 0..9 : CharAt(t, i) = DigitText(d)
DigitValue(ch) == CHOOSE d \in 0..9 : DigitText(d) = ch
RECURSIVE NatOf(_)
NatOf(t) ==
    IF Len(t) = 0 THEN 0
    ELSE 10 * NatOf(SubSeq(t, 1, Len(t) - 1)) + DigitValue(CharAt(t, Len(t)))
HasSign(t) == Len(t) > 0 /\ CharAt(t, 1) \in {"-", "+"}
SignOf(t) == IF Len(t) > 0 /\ CharAt(t, 1) = "-" THEN -1 ELSE 1
Unsigned(t) == IF HasSign(t) THEN SubSeq(t, 2, Len(t)) ELSE t
PointAt(t) ==
    LET P == {i \in 1..Len(t) : CharAt(t, i) = "."}
    IN  IF P = {} THEN 0 ELSE SetMin(P)
IsFloatText(t) == PointAt(t) > 0

\* The digits before and after the point at p of an unsigned text u (p is 0
\* when it has no point).
IntPart(u, p) == IF p = 0 THEN u ELSE SubSeq(u, 1, p - 1)
FracPart(u, p) == IF p = 0 THEN "" ELSE SubSeq(u, p + 1, Len(u))
IsNumberParts(int, frac) ==
    /\ IsDigits(int) /\ IsDigits(frac)
    /\ Len(int) + Len(frac) > 0
    /\ \A i \in 1..Len(frac) : CharAt(frac, i) \in (IF i = 1 THEN {"0", "5"} ELSE {"0"})
NumberOfParts(sign, int, frac) ==
    sign * (Whole(NatOf(int)) + (IF Len(frac) > 0 /\ CharAt(frac, 1) = "5" THEN 1 ELSE 0))
IsNumberAt(u, p) == IsNumberParts(IntPart(u, p), FracPart(u, p))
NumberAt(sign, u, p) == NumberOfParts(sign, IntPart(u, p), FracPart(u, p))
IsNumberText(t) == IsNumberAt(Unsigned(t), PointAt(Unsigned(t)))

\* A parser that drops the digits after the point.
NumberOfWhole(t) ==
    NumberOfParts(SignOf(t), IntPart(Unsigned(t), PointAt(Unsigned(t))), "")

\* The value of a number text, as a count of halves.
NumberOf(t) == NumberAt(SignOf(t), Unsigned(t), PointAt(Unsigned(t)))

\* The texts of numbers written out in the columns of the model, and what
\* the parser makes of them.
NumberTexts == {"0", "1", "-1", "1.5"}
NanText == {"nan"}
NumText ==
    [t \in NumberTexts \cup NanText |->
        CASE t = "1" -> Whole(1)
          [] t = "-1" -> Whole(-1)
          [] t = "1.5" -> Whole(1) + 1
          [] OTHER -> 0]
DateText == [t \in {"2023-06-27"} \cup NanText |-> 1]

IsTextDtype(d) == d \in {"object", "string"}
IsText(c) == c.k = "str"

ParsesAs(c, table) == IsMissing(c) \/ (IsText(c) /\ c.t \in DOMAIN table)
AllParse(s, table) == \A i \in DOMAIN s.vals : ParsesAs(s.vals[i], table)

\* The numeric dtype pandas gives the parsed cells: the masked dtypes for a
\* string column, numpy's for an object column (where a missing cell is NaN).
NumericDtype(s, vals) ==
    LET whole == \A i \in DOMAIN vals :
                    \/ IsMissing(vals[i])
                    \/ vals[i].n % 2 = 0 /\ ~(IsText(s.vals[i]) /\ IsFloatText(s.vals[i].t))
        full == \A i \in DOMAIN vals : ~IsMissing(vals[i])
    IN  IF s.dtype = "string" THEN (IF whole THEN "Int64" ELSE "Float64")
        ELSE IF whole /\ full THEN "int64" ELSE "float64"

\* The cells pd.to_numeric reads: a missing one, a text that parses, and in
\* an object column a Python number, which it takes as it is.
IsNumber(c) == c.k = "num"
ReadsAsNumber(c) ==
    \/ IsMissing(c) \/ IsNumber(c)
    \/ IsText(c) /\ (c.t \in NanText \/ IsNumberText(c.t))
AllNumeric(s) == \A i \in DOMAIN s.vals : ReadsAsNumber(s.vals[i])

ParsedCells(s, table, kind) ==
    [j \in DOMAIN s.vals |->
        IF ParsesAs(s.vals[j], table) /\ ~IsMissing(s.vals[j]) /\ s.vals[j].t \notin NanText
        THEN [k |-> kind, n |-> table[s.vals[j].t], t |-> ""]
        ELSE NA]
NumericCells(s) ==
    [j \in DOMAIN s.vals |->
        IF IsNumber(s.vals[j]) THEN s.vals[j]
        ELSE IF IsText(s.vals[j]) /\ s.vals[j].t \notin NanText /\ IsNumberText(s.vals[j].t)
             THEN Num(NumberOf(s.vals[j].t))
        ELSE NA]

\* A to_numeric whose "ignore" turns the cells it cannot parse into missing
\* ones, as "coerce" does.
to_numeric_coercing(s, errors) ==
    IF ~IsTextDtype(s.dtype) THEN Return(s)
    ELSE IF AllNumeric(s) \/ errors \in {"coerce", "ignore"}
         THEN LET v == NumericCells(s)
              IN  Return(Column(NumericDtype(s, v), v))
    ELSE RaiseOf("ValueError")

\* A to_numeric whose "coerce" gives up on a column as "ignore" does.
to_numeric_no_coerce(s, errors) ==
    IF ~IsTextDtype(s.dtype) THEN Return(s)
    ELSE IF AllNumeric(s)
         THEN LET v == NumericCells(s)
              IN  Return(Column(NumericDtype(s, v), v))
    ELSE IF errors = "raise" THEN RaiseOf("ValueError")
    ELSE Return(s)

\* pd.to_numeric(s, errors=errors) of a text column; a column that is numeric
\* already is returned as it is.
to_numeric(s, errors) ==
    IF ~IsTextDtype(s.dtype) THEN Return(s)
    ELSE IF AllNumeric(s) \/ errors = "coerce"
         THEN LET v == NumericCells(s)
              IN  Return(Column(NumericDtype(s, v), v))
    ELSE IF errors = "raise" THEN RaiseOf("ValueError")
    ELSE Return(s)

\* pd.to_datetime(s, errors=errors) of a text column.
to_datetime(s, errors) ==
    IF ~IsTextDtype(s.dtype) THEN Return(s)
    ELSE IF AllParse(s, DateText) \/ errors = "coerce"
         THEN Return(Column("datetime64[ns]", ParsedCells(s, DateText, "dt")))
    ELSE IF errors = "raise" THEN RaiseOf("ValueError")
    ELSE Return(s)

\* pd.to_timedelta(s.fillna(np.nan), errors="ignore"): a text that is a number
\* is a count of nanoseconds.
to_timedelta_ignore(s) ==
    IF IsTextDtype(s.dtype) /\ AllParse(s, NumText)
    THEN Column("timedelta64[ns]", ParsedCells(s, NumText, "td"))
    ELSE s

\* Series.convert_dtypes(): numpy's numeric dtypes become the masked ones (a
\* float column of whole numbers becomes Int64), an object column of texts
\* becomes a string column, and a masked column keeps its dtype.
convert_dtypes(s) ==
    CASE s.dtype = "int64" -> Column("Int64", s.vals)
      [] s.dtype = "float64" ->
            Column(IF \A n \in NumValues(s) : n % 2 = 0 THEN "Int64" ELSE "Float64", s.vals)
      [] s.dtype = "bool" -> Column("boolean", s.vals)
      [] s.dtype = "object" /\ (\A i \in DOMAIN s.vals : IsMissing(s.vals[i]) \/ IsText(s.vals[i]))
            -> Column("string", s.vals)
      [] OTHER -> s

is_object_or_string(s) == IsTextDtype(s.dtype)

\* ------------------------------------------------------ astype("category")
\* A categorical column holds its distinct present values once, as its
\* categories, and for every cell a code: the place of the cell's value among
\* the categories, counted from 0, or -1 for a missing cell.  The categories
\* stand here in the order of their first cell; pandas sorts them, and the
\* order plays no part in what the column shows.
RECURSIVE Categories(_)
Categories(vals) ==
    IF Len(vals) = 0 THEN <<>>
    ELSE LET front == Categories(SubSeq(vals, 1, Len(vals) - 1))
             last == vals[Len(vals)]
         IN  IF IsMissing(last) \/ \E k \in DOMAIN front : front[k] = last
             THEN front ELSE Append(front, last)

\* Codes that give a missing cell the first category.
CodesNoMissing(vals) ==
    LET cats == Categories(vals)
    IN  [j \in DOMAIN vals |->
            IF IsMissing(vals[j]) THEN (IF Len(cats) = 0 THEN -1 ELSE 0)
            ELSE (CHOOSE k \in DOMAIN cats : cats[k] = vals[j]) - 1]

Codes(vals) ==
    LET cats == Categories(vals)
    IN  [j \in DOMAIN vals |->
            IF IsMissing(vals[j]) THEN -1
            ELSE (CHOOSE k \in DOMAIN cats : cats[k] = vals[j]) - 1]

Categorical(vals) == [categories |-> Categories(vals), codes |-> Codes(vals)]

\* The values a categorical column shows.
Decoded(cat) ==
    [j \in DOMAIN cat.codes |->
        IF cat.codes[j] = -1 THEN NA ELSE cat.categories[cat.codes[j] + 1]]

AsCategory(c) == Column("category", Decoded(Categorical(c.vals)))

\* ---------------------------------------------------------------- cast_dtype
\* A tail that stops after the timedelta attempt.
CastTextNoCategory(s, use_categories) ==
    LET d == to_datetime(s, "ignore").col
        b == to_boolean(d)
        t == to_timedelta_ignore(b)
    IN  IF d.dtype = "datetime64[ns]" THEN d
        ELSE IF IsBoolDtype(b.dtype) THEN b
        ELSE t

\* The tail of cast_dtype: what a column that is still text is tried as.
CastText(s, use_categories) ==
    LET d == to_datetime(s, "ignore").col
        b == to_boolean(d)
        t == to_timedelta_ignore(b)
    IN  IF d.dtype = "datetime64[ns]" THEN d
        ELSE IF IsBoolDtype(b.dtype) THEN b
        ELSE IF t.dtype = "timedelta64[ns]" THEN t
        ELSE IF use_categories THEN AsCategory(t)
        ELSE t

\* A cast_dtype that tries category before anything else.
cast_dtype_category_first(s0, downcast, use_categories) ==
    IF is_object_or_string(s0) /\ use_categories THEN Return(AsCategory(s0))
    ELSE LET n == IF is_object_or_string(s0) THEN to_numeric(s0, "ignore").col ELSE s0
             s == convert_dtypes(n)
         IN  IF downcast /\ IntEligible(s) THEN downcast_integer(Flag(IntEligible(s)), s)
             ELSE IF downcast /\ s.dtype \in {"Float64", "float64"}
                  THEN Return(downcast_to_float32_if_unique(s))
             ELSE Return(CastText(s, use_categories))

\* A cast_dtype without the integer downcast.
cast_dtype_no_int(s0, downcast, use_categories) ==
    LET n == IF is_object_or_string(s0) THEN to_numeric(s0, "ignore").col ELSE s0
        s == convert_dtypes(n)
    IN  IF downcast /\ s.dtype \in {"Float64", "float64"}
        THEN Return(downcast_to_float32_if_unique(s))
        ELSE IF is_object_or_string(s) THEN Return(CastText(s, use_categories))
        ELSE Return(s)

cast_dtype(s0, downcast, use_categories) ==
    LET n == IF is_object_or_string(s0) THEN to_numeric(s0, "ignore").col ELSE s0
        s == convert_dtypes(n)
    IN  IF downcast /\ IntEligible(s) THEN downcast_integer(Flag(IntEligible(s)), s)
        ELSE IF downcast /\ s.dtype \in {"Float64", "float64"}
             THEN Return(downcast_to_float32_if_unique(s))
        ELSE IF is_object_or_string(s) THEN Return(CastText(s, use_categories))
        ELSE Return(s)

\* ------------------------------------------------------------ the columns
\* Sequences over a set of cells, of a given length and up to a length.
RECURSIVE SeqsOfLen(_, _)
SeqsOfLen(C, n) ==
    IF n = 0 THEN {<<>>}
    ELSE {Append(v, c) : v \in SeqsOfLen(C, n - 1), c \in C}
SeqsUpTo(C, n) == UNION {SeqsOfLen(C, m) : m \in 0..n}

\* Numeric cells in ascending order with the missing cells last: the casts
\* work cell by cell and on the min and the max, so the order of the cells
\* plays no part in them.
Ascending(V, n) == {v \in SeqsOfLen(V, n) : \A i \in 1..(n - 1) : v[i] <= v[i + 1]}
NumericVals(V) ==
    UNION {IF n + m > MaxNumLen THEN {}
           ELSE {[j \in 1..(n + m) |-> IF j <= n THEN Num(v[j]) ELSE NA] : v \in Ascending(V, n)} :
              n \in 0..MaxNumLen, m \in 0..MaxNumLen}

IntValuesOf(i) == {Whole(w) : w \in {x \in IntSample : min_value(i) <= x /\ x <= max_value(i)}}

NumericColumns ==
    UNION {{Column(IntDtypes[i], v) : v \in NumericVals(IntValuesOf(i))} : i \in Rows}
    \cup {Column("Float64", v) : v \in NumericVals(FloatSample)}

Texts == {"1", "True", "False", "Y", "N", "2023-06-27"}
TextCells == {Str(t) : t \in Texts}
TextColumns ==
    {Column(d, v) : d \in {"string", "object"}, v \in SeqsUpTo(TextCells \cup {NA}, MaxLen)}
\* Columns of texts that spell numbers.
NumberTextCells == {Str(t) : t \in NumberTexts}
NumberTextColumns ==
    {Column(d, v) : d \in {"string", "object"}, v \in SeqsUpTo(NumberTextCells \cup {NA}, MaxLen)}
\* Object columns of Python bools and of the Python ints 0 and 1.
NativeColumns ==
    {Column("object", v) : v \in SeqsUpTo({Bool(TRUE), Bool(FALSE), NA}, MaxLen)
                                 \cup SeqsUpTo({Num(Whole(0)), Num(Whole(1)), NA}, MaxLen)}

\* Other columns an IntCasting instance may have been asked about before.
ProbeColumns == {Column("Float64", <<Num(n)>>) : n \in FracSample \cup {Whole(1)}}

Columns == NumericColumns \cup TextColumns \cup NumberTextColumns \cup NativeColumns

\* ------------------------------------------------------ DtypeCasting.cast
\* A table is a sequence of named columns of one length.
Named(nm, c) == [name |-> nm, dtype |-> c.dtype, vals |-> c.vals]
Nameless(c) == Column(c.dtype, c.vals)

\* DataFrame.select_dtypes(dtypes_to_check): does it keep a column of dtype d?
Selected(d, dtypes_to_check) ==
    \/ "object" \in dtypes_to_check /\ d = "object"
    \/ "string" \in dtypes_to_check /\ d = "string"
    \/ "number" \in dtypes_to_check
          /\ (IsIntDtype(d) \/ IsFloatDtype(d) \/ d \in {"int64", "timedelta64[ns]"})

\* The parameters of the coerce functions: safe_partial passes a keyword
\* argument on only to a function that has a parameter of that name.
FuncParams(f) ==
    CASE f = "to_numeric" -> {"arg", "errors", "downcast", "dtype_backend"}
      [] f = "to_datetime" -> {"arg", "errors", "dayfirst", "yearfirst", "utc", "format"}
      [] f = "to_boolean" -> {"s"}
      [] f = "cast_dtype" -> {"s", "downcast", "use_categories"}
      [] OTHER -> {}

\* final_func(column): the coerce function with the keyword arguments
\* safe_partial kept; a function called without errors uses its default.
ApplyFunc(cfg, c) ==
    LET errors == IF "errors" \in FuncParams(cfg.coerce_func) THEN cfg.errors ELSE "raise"
    IN  CASE cfg.coerce_func = "to_numeric" -> to_numeric(c, errors)
          [] cfg.coerce_func = "to_datetime" -> to_datetime(c, errors)
          [] cfg.coerce_func = "to_boolean" -> Return(to_boolean(c))
          [] cfg.coerce_func = "cast_dtype" ->
                cast_dtype(c, cfg.coerce_func_kws.downcast, cfg.coerce_func_kws.use_categories)

\* df_subset.astype(new_dtype, errors=errors) of one column of texts.
AsType(cfg, c) ==
    Return(IF cfg.new_dtype = "category" THEN AsCategory(c) ELSE Column(cfg.new_dtype, c.vals))

\* The column of df_subset after the apply or the astype.
Coerced(cfg, c) ==
    IF cfg.coerce_func # "" THEN ApplyFunc(cfg, Nameless(c)) ELSE AsType(cfg, Nameless(c))

\* A subset that takes no notice of cols_to_check.
ExaminedAnyName(cfg, df, cols) ==
    {i \in DOMAIN df : Selected(df[i].dtype, cfg.dtypes_to_check)}

\* The columns of df_subset: those named in cols_to_check (all of them when it
\* is None) whose dtype select_dtypes keeps.
Examined(cfg, df, cols) ==
    {i \in DOMAIN df : (cols.all \/ df[i].name \in cols.names)
                          /\ Selected(df[i].dtype, cfg.dtypes_to_check)}

\* df_subset after the apply or the astype, column by column (a column that
\* is not in df_subset stands as it is).
Subset(cfg, df, cols) ==
    [i \in DOMAIN df |->
        IF i \in Examined(cfg, df, cols) THEN Coerced(cfg, df[i]) ELSE Return(Nameless(df[i]))]

\* A report that lists every column.
\* What the exception of a failed apply says.  No code of DtypeCasting.cast
\* catches or wraps it, so it is the one pandas raised: the ValueError of a
\* parser quotes the text it could not parse and its position in the column,
\* the IndexError of .iloc[0] quotes nothing.
NoDetail == [exception |-> "", text |-> "", position |-> 0]
ErrorSaid(cfg, c, e) ==
    LET table == IF cfg.coerce_func = "to_numeric" THEN NumText ELSE DateText
        bad == {j \in DOMAIN c.vals : ~ParsesAs(c.vals[j], table)}
    IN  IF e = "ValueError" /\ bad # {}
        THEN [exception |-> e, text |-> c.vals[SetMin(bad)].t, position |-> SetMin(bad) - 1]
        ELSE [exception |-> e, text |-> "", position |-> 0]

RECURSIVE NamesOfAll(_, _, _)
NamesOfAll(df, I, i) ==
    IF i > Len(df) THEN <<>> ELSE <<df[i].name>> \o NamesOfAll(df, I, i + 1)

RECURSIVE NamesOf(_, _, _)
NamesOf(df, I, i) ==
    IF i > Len(df) THEN <<>>
    ELSE (IF i \in I THEN <<df[i].name>> ELSE <<>>) \o NamesOf(df, I, i + 1)

\* A write-back that puts the columns in the opposite order.
WriteBackReordered(df, new, I) ==
    [i \in DOMAIN df |->
        LET k == IF I = {} THEN i ELSE Len(df) + 1 - i
        IN  IF k \in I THEN Named(df[k].name, new[k].col) ELSE df[k]]

\* df[dtype_changes] = df_subset[dtype_changes]
WriteBack(df, new, I) ==
    [i \in DOMAIN df |-> IF i \in I THEN Named(df[i].name, new[i].col) ELSE df[i]]

\* A cast that writes each column back as soon as it is coerced.
CastWriteThrough(cfg, df, cols) ==
    LET new == Subset(cfg, df, cols)
        raised == {i \in DOMAIN df : new[i].err # ""}
        changes == {i \in DOMAIN df : new[i].err = "" /\ new[i].col.dtype # df[i].dtype}
    IN  IF raised # {}
        THEN [err |-> new[SetMin(raised)].err,
              df |-> WriteBack(df, new, {i \in changes : i < SetMin(raised)}),
              ret |-> "", returned |-> <<>>, report |-> <<>>,
              detail |-> ErrorSaid(cfg, df[SetMin(raised)], new[SetMin(raised)].err)]
        ELSE [err |-> "", df |-> WriteBack(df, new, changes),
              ret |-> "df", returned |-> WriteBack(df, new, changes),
              report |-> NamesOf(df, changes, 1), detail |-> NoDetail]

\* A cast that leaves the table it is given alone and returns a changed copy.
CastOnCopy(cfg, df, cols) ==
    LET new == Subset(cfg, df, cols)
        raised == {i \in DOMAIN df : new[i].err # ""}
        changes == {i \in DOMAIN df : new[i].err = "" /\ new[i].col.dtype # df[i].dtype}
    IN  IF raised # {}
        THEN [err |-> new[SetMin(raised)].err, df |-> df,
              ret |-> "", returned |-> <<>>, report |-> <<>>,
              detail |-> ErrorSaid(cfg, df[SetMin(raised)], new[SetMin(raised)].err)]
        ELSE [err |-> "", df |-> df,
              ret |-> "copy", returned |-> WriteBack(df, new, changes),
              report |-> NamesOf(df, changes, 1), detail |-> NoDetail]

\* DtypeCasting.cast(df, cols_to_check): the error the apply raised, with df as
\* it was; or df with the columns of dtype_changes (the columns of df_subset
\* whose dtype is not the old one) replaced, and dtype_changes.  The field df
\* is the table object the call was given, as it is after the call; ret names
\* the object the call returns, the one it was given ("df"), and returned is
\* what that object holds.
Cast(cfg, df, cols) ==
    LET new == Subset(cfg, df, cols)
        raised == {i \in DOMAIN df : new[i].err # ""}
        changes == {i \in DOMAIN df : new[i].err = "" /\ new[i].col.dtype # df[i].dtype}
    IN  IF raised # {}
        THEN [err |-> new[SetMin(raised)].err, df |-> df,
              ret |-> "", returned |-> <<>>, report |-> <<>>,
              detail |-> ErrorSaid(cfg, df[SetMin(raised)], new[SetMin(raised)].err)]
        ELSE [err |-> "", df |-> WriteBack(df, new, changes),
              ret |-> "df", returned |-> WriteBack(df, new, changes),
              report |-> NamesOf(df, changes, 1), detail |-> NoDetail]

NoKws == [downcast |-> FALSE, use_categories |-> FALSE]
DtypeCasting(dtypes_to_check, new_dtype, coerce_func, coerce_func_kws, errors) ==
    [dtypes_to_check |-> dtypes_to_check, new_dtype |-> new_dtype,
     coerce_func |-> coerce_func, coerce_func_kws |-> coerce_func_kws, errors |-> errors]

\* The entry points, with their default dtypes_to_check.
cast_to_numeric(df, cols, errors) ==
    Cast(DtypeCasting({"object", "string"}, "", "to_numeric", NoKws, errors), df, cols)
cast_to_datetime(df, cols, errors) ==
    Cast(DtypeCasting({"object", "string"}, "", "to_datetime", NoKws, errors), df, cols)
cast_to_boolean(df, cols) ==
    Cast(DtypeCasting({"object", "string"}, "", "to_boolean", NoKws, "ignore"), df, cols)
cast_to_category(df, cols, errors) ==
    Cast(DtypeCasting({"object", "string"}, "category", "", NoKws, errors), df, cols)
cast_dtypes(df, cols, downcast, use_categories) ==
    Cast(DtypeCasting({"object", "string", "number"}, "", "cast_dtype",
                      [downcast |-> downcast, use_categories |-> use_categories], "ignore"),
         df, cols)

\* ----------------------------------------------------------- the tables
\* A table of two columns, "a" and "b": any column of the pool before a text
\* column that nothing parses, or after a text column of numbers.
TableTexts == {"1", "True", "False", "2023-06-27"} \cup NanText
PoolVals ==
    [d \in {"string", "object", "Float64", "Int64"} |->
        CASE d \in {"string", "object"} -> {Str(t) : t \in TableTexts} \cup {NA}
          [] d = "Float64" -> {Num(n) : n \in FracSample \cup {Pow2(MantBits)}} \cup {NA}
          [] d = "Int64" -> {Num(Whole(v)) : v \in {-1, 0, 1}} \cup {NA}]
Pool == UNION {{Column(d, v) : v \in SeqsOfLen(PoolVals[d], NRows)} : d \in DOMAIN PoolVals}

Filled(d, c) == Column(d, [j \in 1..NRows |-> c])
Unparsable == Column("string", [j \in 1..NRows |-> IF j = 1 THEN Str("Y") ELSE Str("1")])

Tables ==
    UNION {{<<Named("a", c), Named("b", Unparsable)>>,
            <<Named("a", Filled("string", Str("1"))), Named("b", c)>>} : c \in Pool}

\* cols_to_check: None, or the names given.
AllCols == [all |-> TRUE, names |-> {}]
Only(names) == [all |-> FALSE, names |-> names]
ColsToCheck == {AllCols, Only({"b"})}

\* ------------------------------------------------------------ safe_partial
\* A callable as inspect.signature shows it: the names of its parameters,
\* and the name of its ** parameter ("" when it has none).
Callable(params, varkw) == [params |-> params, varkw |-> varkw]

\* inspect.signature(func).parameters: every parameter by its name, the **
\* parameter under its own name as well.
func_parameters(func) == func.params \cup (IF func.varkw = "" THEN {} ELSE {func.varkw})

\* safe_partial(func, *args, **kwargs): the partial, with its func, args and
\* keywords.
safe_partial(func, args, kwargs) ==
    LET kept == IF "kwargs" \notin func_parameters(func)
                THEN {k \in DOMAIN kwargs : k \in func_parameters(func)}
                ELSE DOMAIN kwargs
    IN  [made |-> TRUE, func |-> func, args |-> args,
         keywords |-> [k \in kept |-> kwargs[k]]]

\* The callables and the keyword arguments tried.
ParamNames == {"errors", "downcast", "kwargs"}
VarKwNames == {"", "kwargs", "kw"}
Callables ==
    {c \in {Callable(P, v) : P \in SUBSET ParamNames, v \in VarKwNames} : c.varkw \notin c.params}
Keywords == {"errors", "downcast", "hi", "kw"}
KwValues == {"ignore", "!"}
KwDicts == UNION {[K -> KwValues] : K \in SUBSET Keywords}
PositionalArgs == {<<>>, <<"s">>}

\* --------------------------------------------------- cache_to_disk_decorator
\* str(x) of a Python int or bool.
PyStr(c) ==
    IF c.k = "bool" THEN (IF c.n = 1 THEN "True" ELSE "False") ELSE IntText(c.n \div 2)

\* ", ".join(texts)
RECURSIVE Joined(_)
Joined(texts) ==
    IF Len(texts) = 0 THEN ""
    ELSE IF Len(texts) = 1 THEN texts[1]
    ELSE texts[1] \o ", " \o Joined(Tail(texts))

\* str(args) of the tuple of positional arguments, and str(kwargs) of the
\* dict of keyword arguments, whose items stand in the order of the call.
StrOfArgs(args) ==
    "(" \o Joined([i \in DOMAIN args |-> PyStr(args[i])])
        \o (IF Len(args) = 1 THEN "," ELSE "") \o ")"
StrOfKwargs(kwargs) ==
    "{" \o Joined([i \in DOMAIN kwargs |->
                      "'" \o kwargs[i].key \o "': " \o PyStr(kwargs[i].value)]) \o "}"

\* hashlib.sha256(text).hexdigest(): texts that differ have digests that
\* differ.
Hexdigest(text) == "sha256(" \o text \o ")"

\* str(dt.datetime.now().date()); day 1 is 2023-06-27.
DateStr(day) == "2023-06-" \o IntText(26 + day)

\* create_hashed_filename(fn, is_method=False, path="data/",
\* filetype="parquet", args, kwargs) on the date today.
create_hashed_filename(fn_name, today, args, kwargs) ==
    "data/" \o fn_name \o "_" \o DateStr(today) \o "_"
        \o Hexdigest(StrOfArgs(args) \o StrOfKwargs(kwargs)) \o ".parquet"

\* kwargs.get(key, default)
KwGet(kwargs, key, default) ==
    IF \E i \in DOMAIN kwargs : kwargs[i].key = key
    THEN kwargs[CHOOSE i \in DOMAIN kwargs : kwargs[i].key = key].value
    ELSE default
Truthy(c) == c.n # 0

\* The dict kwargs as Python compares dicts: its items, in no order.
KwItems(kwargs) == {<<kwargs[i].key, kwargs[i].value>> : i \in DOMAIN kwargs}

\* fn(*args, **kwargs), the wrapped function: what it returns is made of its
\* arguments and of the world at the time it runs.
fn_call(args, kwargs, world) == [args |-> args, kwargs |-> KwItems(kwargs), world |-> world]

\* The files of path: the stored result under each file name.
NoFiles == [f \in {} |-> 0]
Written(disk, filename, result) ==
    [f \in DOMAIN disk \cup {filename} |-> IF f = filename THEN result ELSE disk[f]]

\* A wrap that stores nothing.
wrap_no_write(disk, today, world, args, kwargs) ==
    LET filename == create_hashed_filename("fn", today, args, kwargs)
    IN  IF ~Truthy(KwGet(kwargs, "cache_to_disk", Bool(FALSE)))
        THEN [result |-> fn_call(args, kwargs, world), invoked |-> 1,
              read |-> {}, wrote |-> {}, disk |-> disk]
        ELSE IF filename \in DOMAIN disk
        THEN [result |-> disk[filename], invoked |-> 0,
              read |-> {filename}, wrote |-> {}, disk |-> disk]
        ELSE [result |-> fn_call(args, kwargs, world), invoked |-> 1,
              read |-> {}, wrote |-> {}, disk |-> disk]

\* wrap(*args, **kwargs) of cache_to_disk_decorator(fn): the result, how often
\* fn ran, the files read and written, and the files of path afterwards.
wrap(disk, today, world, args, kwargs) ==
    LET filename == create_hashed_filename("fn", today, args, kwargs)
    IN  IF ~Truthy(KwGet(kwargs, "cache_to_disk", Bool(FALSE)))
        THEN [result |-> fn_call(args, kwargs, world), invoked |-> 1,
              read |-> {}, wrote |-> {}, disk |-> disk]
        ELSE IF filename \in DOMAIN disk
        THEN [result |-> disk[filename], invoked |-> 0,
              read |-> {filename}, wrote |-> {}, disk |-> disk]
        ELSE [result |-> fn_call(args, kwargs, world), invoked |-> 1,
              read |-> {}, wrote |-> {filename},
              disk |-> Written(disk, filename, fn_call(args, kwargs, world))]

\* The calls tried: one positional argument, and the keyword arguments n and
\* cache_to_disk in either order.
Kw(key, value) == [key |-> key, value |-> value]
CallArgs == {<<Num(Whole(1))>>, <<Num(Whole(2))>>}
CallKwargs ==
    {<<>>,
     <<Kw("cache_to_disk", Bool(TRUE))>>,
     <<Kw("cache_to_disk", Bool(FALSE))>>,
     <<Kw("n", Num(Whole(1))), Kw("cache_to_disk", Bool(TRUE))>>,
     <<Kw("cache_to_disk", Bool(TRUE)), Kw("n", Num(Whole(1)))>>}

\* ---------------------------------------------------------- create_bday_flag
\* A timestamp: its calendar date, counted in days from Friday 2023-06-30,
\* and its time of day, 0 for midnight.
Timestamp(day, time) == [day |-> day, time |-> time]
AtOrBefore(a, b) == a.day < b.day \/ (a.day = b.day /\ a.time <= b.time)

\* Series.dt.day_of_week: Monday is 0 and Sunday is 6; day 1, 2023-07-01, is
\* a Saturday.
day_of_week(ts) == (ts.day + 4) % 7

\* The holidays of USMajorHolidayCalendar among the days of the model:
\* Independence Day, Tuesday 2023-07-04.  The calendar gives each at midnight.
HolidayDays == {4}

\* get_holiday_dates(start_date, end_date): the holidays from start_date to
\* end_date, both included.
get_holiday_dates(start_date, end_date) ==
    {h \in {Timestamp(d, 0) : d \in HolidayDays} :
        AtOrBefore(start_date, h) /\ AtOrBefore(h, end_date)}

SeriesMin(dt_series) ==
    dt_series[CHOOSE i \in DOMAIN dt_series :
                 \A j \in DOMAIN dt_series : AtOrBefore(dt_series[i], dt_series[j])]
SeriesMax(dt_series) ==
    dt_series[CHOOSE i \in DOMAIN dt_series :
                 \A j \in DOMAIN dt_series : AtOrBefore(dt_series[j], dt_series[i])]

\* create_bday_flag(dt_series, drop_holidays)
create_bday_flag(dt_series, drop_holidays) ==
    [i \in DOMAIN dt_series |->
        /\ day_of_week(dt_series[i]) < 5
        /\ drop_holidays =>
              dt_series[i] \notin get_holiday_dates(SeriesMin(dt_series), SeriesMax(dt_series))]

\* s.loc[boolean_mask]: the rows of the mask, in their order.
RECURSIVE Loc(_, _)
Loc(rows, mask) ==
    IF Len(rows) = 0 THEN <<>>
    ELSE (IF mask[1] THEN <<rows[1]>> ELSE <<>>) \o Loc(Tail(rows), Tail(mask))

\* filter_to_business_dates(df_or_s, drop_holidays=drop_holidays) of a Series
filter_to_business_dates(dt_series, drop_holidays) ==
    Loc(dt_series, create_bday_flag(dt_series, drop_holidays))

\* The Series tried: up to MaxSeriesLen timestamps of the first NDays days, at
\* midnight or later in the day.
Timestamps == {Timestamp(d, tm) : d \in 1..NDays, tm \in {0, 1}}
DatetimeSeries == UNION {SeqsOfLen(Timestamps, n) : n \in 1..MaxSeriesLen}

\* ------------------------------------------------ a column and its casts
\* s: the column the caller holds; ie: the int_eligible attribute of the
\* caller's IntCasting instance; op, res: the last call on s and its result.
VARIABLES s, ie, op, res
\* df: the caller's table; df0: the table before the last call; call: the
\* last call on it; out: the error it raised, what the error says, and the
\* change report of the call.
VARIABLES df, df0, call, out
\* func, args, kws: a callable and the arguments given to safe_partial with
\* it; test: the partial returned.
VARIABLES func, args, kws, test
\* disk: the files of the cache folder; today: the date; world: what the
\* wrapped function reads besides its arguments; calls: the calls of the
\* wrapper so far; log: the last two of them.
VARIABLES disk, today, world, calls, log
\* dt_series: a Series of timestamps; bday: the last call on it and its result.
VARIABLES dt_series, bday

svars == <<s, ie, op, res>>
tvars == <<df, df0, call, out>>
pvars == <<func, args, kws, test>>
cvars == <<disk, today, world, calls, log>>
dvars == <<dt_series, bday>>
uvars == <<pvars, cvars, dvars>>
vars == <<svars, tvars, pvars, cvars, dvars>>

\* No partial, no cache and no Series of timestamps are in play.
NoPartial ==
    /\ func = Callable({}, "")
    /\ args = <<>>
    /\ kws = <<>>
    /\ test = [made |-> FALSE, func |-> func, args |-> <<>>, keywords |-> <<>>]
NoCache ==
    /\ disk = NoFiles
    /\ today = 1
    /\ world = 0
    /\ calls = 0
    /\ log = <<>>
NoDates ==
    /\ dt_series = <<>>
    /\ bday = [fn |-> "none", drop_holidays |-> FALSE, flag |-> <<>>, kept |-> <<>>]
NoUtils == NoPartial /\ NoCache /\ NoDates

\* No table is in play.
NoTable ==
    /\ df = <<>>
    /\ df0 = <<>>
    /\ call = "none"
    /\ out = ""

IInit ==
    /\ NoTable
    /\ NoUtils
    /\ s \in NumericColumns
    /\ ie = "unset"
    /\ op = "none"
    /\ res = Return(s)

SInit ==
    /\ NoTable
    /\ NoUtils
    /\ s \in Columns
    /\ ie = "unset"
    /\ op = "none"
    /\ res = Return(s)

\* ic = IntCasting()
NewIntCasting ==
    /\ ie' = "unset"
    /\ UNCHANGED <<s, op, res>>

\* ic.could_be_int(c) on the caller's column or on another one.
CouldBeInt ==
    /\ \E c \in {s} \cup ProbeColumns :
          ie' = Flag(IntEligible(c))
    /\ op' = "could_be_int"
    /\ UNCHANGED <<s, res>>

\* ic.downcast_integer(s)
DowncastInteger ==
    /\ ie' = Flag(EligibleAfter(ie, s))
    /\ op' = "downcast_integer"
    /\ res' = downcast_integer(ie, s)
    /\ UNCHANGED s

DowncastFloat ==
    /\ s.dtype = "Float64"
    /\ op' = "downcast_to_float32_if_unique"
    /\ res' = Return(downcast_to_float32_if_unique(s))
    /\ UNCHANGED <<s, ie>>

ToBoolean ==
    /\ op' = "to_boolean"
    /\ res' = Return(to_boolean(s))
    /\ UNCHANGED <<s, ie>>

\* cast_dtype(s, downcast, use_categories) of a numeric or a text column; it
\* makes an IntCasting instance of its own.
CastDtypeCall(downcast, use_categories) ==
    CASE downcast /\ use_categories -> "cast_dtype"
      [] downcast /\ ~use_categories -> "cast_dtype(use_categories=False)"
      [] ~downcast /\ use_categories -> "cast_dtype(downcast=False)"
      [] OTHER -> "cast_dtype(downcast=False, use_categories=False)"

CastDtype ==
    /\ IsTextDtype(s.dtype) => \A i \in Present(s) : IsText(s.vals[i])
    /\ \E downcast \in BOOLEAN, use_categories \in BOOLEAN :
          /\ op' = CastDtypeCall(downcast, use_categories)
          /\ res' = cast_dtype(s, downcast, use_categories)
    /\ UNCHANGED <<s, ie>>

\* One IntCasting instance and the numeric columns it is used on.
INext ==
    \/ NewIntCasting /\ UNCHANGED <<tvars, uvars>>
    \/ CouldBeInt /\ UNCHANGED <<tvars, uvars>>
    \/ DowncastInteger /\ UNCHANGED <<tvars, uvars>>

IntSpec == IInit /\ [][INext]_vars

\* df.astype(d) of a numeric column: texts in a string column, the numbers
\* themselves as Python objects in an object column.
AsTextDtype(c, d) ==
    IF d = "object" THEN Column("object", c.vals)
    ELSE Column("string",
                [j \in DOMAIN c.vals |->
                    IF IsMissing(c.vals[j]) THEN NA
                    ELSE IF IsIntDtype(c.dtype) THEN Str(IntText(c.vals[j].n \div 2))
                    ELSE Str(FloatText(c.vals[j].n))])

\* cast_to_numeric(df.astype(d)) of a table whose one column is the numeric
\* column s.
CastToNumericRendered ==
    /\ IsIntDtype(s.dtype) \/ s.dtype = "Float64"
    /\ \E d \in {"string", "object"} :
          LET r == cast_to_numeric(<<Named("a", AsTextDtype(s, d))>>, AllCols, "ignore")
          IN  /\ op' = "cast_to_numeric(astype(" \o d \o "))"
              /\ res' = [err |-> r.err, col |-> Nameless(r.returned[1])]
    /\ UNCHANGED <<s, ie>>

\* The casts of one column that keep no state.
SNext ==
    \/ DowncastFloat /\ UNCHANGED <<tvars, uvars>>
    \/ ToBoolean /\ UNCHANGED <<tvars, uvars>>
    \/ CastDtype /\ UNCHANGED <<tvars, uvars>>
    \/ CastToNumericRendered /\ UNCHANGED <<tvars, uvars>>

SeriesSpec == SInit /\ [][SNext]_vars

\* -------------------------------------------------- a table and its casts
Call(fn, cols, errors, downcast, use_categories) ==
    [fn |-> fn, cols |-> cols, errors |-> errors,
     downcast |-> downcast, use_categories |-> use_categories]

\* No single column is in play.
NoSeries ==
    /\ s = Column("", <<>>)
    /\ ie = "unset"
    /\ op = "none"
    /\ res = Return(s)

TInit ==
    /\ NoSeries
    /\ NoUtils
    /\ df \in Tables
    /\ df0 = df
    /\ call = Call("none", AllCols, "ignore", FALSE, FALSE)
    /\ out = [err |-> "", ret |-> "", returned |-> <<>>, report |-> <<>>, detail |-> NoDetail]

\* The caller's table after a call that returned r.
Done(c, r) ==
    LET ret == r
    IN  /\ df0' = df
        /\ call' = c
        /\ df' = ret.df
        /\ out' = [err |-> ret.err, ret |-> ret.ret, returned |-> ret.returned,
                   report |-> ret.report, detail |-> ret.detail]

CastToNumeric ==
    \E cols \in ColsToCheck, errors \in {"ignore", "raise", "coerce"} :
        Done(Call("cast_to_numeric", cols, errors, FALSE, FALSE),
             cast_to_numeric(df, cols, errors))

CastToDatetime ==
    \E cols \in {AllCols}, errors \in {"ignore", "raise", "coerce"} :
        Done(Call("cast_to_datetime", cols, errors, FALSE, FALSE),
             cast_to_datetime(df, cols, errors))

CastToBoolean ==
    \E cols \in {AllCols} :
        Done(Call("cast_to_boolean", cols, "ignore", FALSE, FALSE), cast_to_boolean(df, cols))

CastToCategory ==
    \E cols \in ColsToCheck, errors \in {"ignore"} :
        Done(Call("cast_to_category", cols, errors, FALSE, FALSE),
             cast_to_category(df, cols, errors))

CastDtypes ==
    \E cols \in {AllCols}, downcast \in BOOLEAN, use_categories \in BOOLEAN :
        Done(Call("cast_dtypes", cols, "ignore", downcast, use_categories),
             cast_dtypes(df, cols, downcast, use_categories))

TNext ==
    \/ CastToNumeric /\ UNCHANGED <<svars, uvars>>
    \/ CastToDatetime /\ UNCHANGED <<svars, uvars>>
    \/ CastToBoolean /\ UNCHANGED <<svars, uvars>>
    \/ CastToCategory /\ UNCHANGED <<svars, uvars>>
    \/ CastDtypes /\ UNCHANGED <<svars, uvars>>

TableSpec == TInit /\ [][TNext]_vars

\* ------------------------------------------------ safe_partial and its use
PInit ==
    /\ NoTable
    /\ NoSeries
    /\ NoCache
    /\ NoDates
    /\ func \in Callables
    /\ args \in PositionalArgs
    /\ kws \in KwDicts
    /\ test = [made |-> FALSE, func |-> func, args |-> <<>>, keywords |-> <<>>]

\* test = safe_partial(func, *args, **kws)
SafePartial ==
    /\ test' = safe_partial(func, args, kws)
    /\ UNCHANGED <<func, args, kws>>

PNext == SafePartial /\ UNCHANGED <<svars, tvars, cvars, dvars>>

PartialSpec == PInit /\ [][PNext]_vars

\* ------------------------------------------- a function cached to disk
CInit ==
    /\ NoTable
    /\ NoSeries
    /\ NoPartial
    /\ NoDates
    /\ NoCache

\* The date changes.
NextDay ==
    /\ today < MaxDay
    /\ today' = today + 1
    /\ UNCHANGED <<disk, world, calls, log>>

\* What the wrapped function reads changes.
WorldChanges ==
    /\ world < MaxWorld
    /\ world' = world + 1
    /\ UNCHANGED <<disk, today, calls, log>>

\* wrap(*a, **k), a call of the decorated function.
WrapCall ==
    /\ calls < MaxCalls
    /\ \E a \in CallArgs, k \in CallKwargs :
          LET r == wrap(disk, today, world, a, k)
              e == [args |-> a, kwargs |-> k, today |-> today, before |-> disk,
                    result |-> r.result, invoked |-> r.invoked,
                    read |-> r.read, wrote |-> r.wrote]
          IN  /\ disk' = r.disk
              /\ log' = Append(IF Len(log) = 2 THEN Tail(log) ELSE log, e)
    /\ calls' = calls + 1
    /\ UNCHANGED <<today, world>>

CNext ==
    \/ NextDay /\ UNCHANGED <<svars, tvars, pvars, dvars>>
    \/ WorldChanges /\ UNCHANGED <<svars, tvars, pvars, dvars>>
    \/ WrapCall /\ UNCHANGED <<svars, tvars, pvars, dvars>>

CacheSpec == CInit /\ [][CNext]_vars

\* ------------------------------------------------ a Series of timestamps
DInit ==
    /\ NoTable
    /\ NoSeries
    /\ NoPartial
    /\ NoCache
    /\ dt_series \in DatetimeSeries
    /\ bday = [fn |-> "none", drop_holidays |-> FALSE, flag |-> <<>>, kept |-> <<>>]

CreateBdayFlag ==
    /\ \E drop \in BOOLEAN :
          bday' = [fn |-> "create_bday_flag", drop_holidays |-> drop,
                   flag |-> create_bday_flag(dt_series, drop), kept |-> <<>>]
    /\ UNCHANGED dt_series

FilterToBusinessDates ==
    /\ \E drop \in BOOLEAN :
          bday' = [fn |-> "filter_to_business_dates", drop_holidays |-> drop,
                   flag |-> create_bday_flag(dt_series, drop),
                   kept |-> filter_to_business_dates(dt_series, drop)]
    /\ UNCHANGED dt_series

DNext ==
    \/ CreateBdayFlag /\ UNCHANGED <<svars, tvars, pvars, cvars>>
    \/ FilterToBusinessDates /\ UNCHANGED <<svars, tvars, pvars, cvars>>

DatesSpec == DInit /\ [][DNext]_vars

\* ===================================================== the claims, C1..C30
InRangeOf(c, d) ==
    \A n \in NumValues(c) : Whole(min_value(RowOf(d))) <= n /\ n <= Whole(max_value(RowOf(d)))
Downcast == op = "downcast_integer"

\* C1: downcast_integer of an integer-like column whose [min, max] some row of
\* the range table covers returns a column with the same values at the same
\* positions, and when its dtype is an integer dtype every present value lies
\* within that dtype's [min_value, max_value].
C1_DowncastLossless ==
    (Downcast /\ IntEligible(s) /\ CoveringRows(s) # {}) =>
        /\ res.err = ""
        /\ res.col.vals = s.vals
        /\ res.col.dtype = s.dtype \/ IsIntDtype(res.col.dtype)
        /\ IsIntDtype(res.col.dtype) => InRangeOf(s, res.col.dtype)
C1_Witness ==
    /\ Downcast /\ s.dtype = "Float64" /\ res.col.dtype = "Int16"
    /\ MissingAt(s) # {} /\ NumValues(s) # {}

\* C2: the dtype downcast_integer casts a column to is minimal: no row of the
\* range table with fewer bits covers the column's [min, max].
C2_DowncastMinimal ==
    (Downcast /\ res.err = "" /\ res.col.dtype # s.dtype) =>
        /\ RowOf(res.col.dtype) \in CoveringRows(s)
        /\ \A j \in CoveringRows(s) : SourceBits[j] >= SourceBits[RowOf(res.col.dtype)]
C2_Witness ==
    /\ Downcast /\ s.dtype = "Int64" /\ res.col.dtype = "Int16"
    /\ Cardinality(CoveringRows(s)) = 3

\* C3: downcast_to_float32_if_unique returns the Float32 column only when the
\* narrowing keeps the number of distinct present values and the original
\* column otherwise, so the result has as many distinct values as the input.
C3_FloatKeepsDistinct ==
    (op = "downcast_to_float32_if_unique") =>
        /\ nunique(res.col) = nunique(s)
        /\ res.col.dtype = "Float32" =>
              (res.col = AsTypeFloat32(s) /\ nunique(AsTypeFloat32(s)) = nunique(s))
        /\ res.col.dtype # "Float32" => res.col = s
C3_Witness ==
    /\ op = "downcast_to_float32_if_unique" /\ res.col.dtype = "Float64"
    /\ nunique(s) = 2 /\ nunique(AsTypeFloat32(s)) = 1

CellSet(c) == {c.vals[i] : i \in DOMAIN c.vals}

\* C7: to_boolean converts a column only when its set of distinct values is
\* exactly the native {True, False} or the texts {"True", "False"}; any other
\* column, the integers {0, 1} included, is returned unchanged.
C7_BooleanNarrowMatch ==
    (op = "to_boolean" /\ res.col # s) =>
        \/ CellSet(s) = {Bool(TRUE), Bool(FALSE)}
        \/ CellSet(s) = {Str("True"), Str("False")}

C9_ObjectWithNaUnchanged ==
    (op = "to_boolean" /\ s.dtype = "object" /\ CellSet(s) = {Bool(TRUE), Bool(FALSE), NA}) =>
        res.col = s
C9_Witness ==
    /\ op = "to_boolean" /\ s.dtype = "object" /\ res.err = ""
    /\ s.vals = <<NA, Bool(FALSE), Bool(TRUE)>>

\* The DtypeCasting a call makes, and the parser of its coerce function.
CfgOf(c) ==
    CASE c.fn = "cast_to_numeric" -> DtypeCasting({"object", "string"}, "", "to_numeric", NoKws, c.errors)
      [] c.fn = "cast_to_datetime" -> DtypeCasting({"object", "string"}, "", "to_datetime", NoKws, c.errors)
      [] c.fn = "cast_to_boolean" -> DtypeCasting({"object", "string"}, "", "to_boolean", NoKws, "ignore")
      [] c.fn = "cast_to_category" -> DtypeCasting({"object", "string"}, "category", "", NoKws, c.errors)
      [] OTHER -> DtypeCasting({"object", "string", "number"}, "", "cast_dtype",
                               [downcast |-> c.downcast, use_categories |-> c.use_categories], "ignore")
Parsing == call.fn \in {"cast_to_numeric", "cast_to_datetime"}
HasUnparsable(c) ==
    IF call.fn = "cast_to_numeric" THEN ~AllParse(c, NumText) ELSE ~AllParse(c, DateText)
ExaminedNow == Examined(CfgOf(call), df0, call.cols)
TargetKind == IF call.fn = "cast_to_numeric" THEN "num" ELSE "dt"

\* C4: under errors="ignore" cast_to_numeric and cast_to_datetime return, and
\* leave an examined column with an unparsable cell as it was, values and
\* dtype; a column is converted in every present cell (a "nan" to the missing
\* value of the new dtype) or not touched.
C4_IgnoreAllOrNothing ==
    (Parsing /\ call.errors = "ignore") =>
        /\ out.err = ""
        /\ \A i \in DOMAIN df0 :
              /\ (i \in ExaminedNow /\ HasUnparsable(df0[i])) => df[i] = df0[i]
              /\ \/ df[i] = df0[i]
                 \/ \A j \in Present(df0[i]) :
                        \/ df[i].vals[j].k = TargetKind
                        \/ df0[i].vals[j].t \in NanText /\ IsMissing(df[i].vals[j])
C4_Witness ==
    /\ Parsing /\ call.errors = "ignore" /\ call.cols.all
    /\ df0[2].dtype = "string" /\ df0[2].vals[1] = Str("1") /\ df0[2].vals[2] = Str("True")
    /\ df[2] = df0[2]
    /\ df[1].dtype # df0[1].dtype

\* C5: under errors="raise" a cast_to_numeric or cast_to_datetime call with an
\* unparsable cell in an examined column raises, and the caller's table is as
\* it was before the call.
C5_RaiseLeavesTable ==
    (Parsing /\ call.errors = "raise" /\ \E i \in ExaminedNow : HasUnparsable(df0[i])) =>
        /\ out.err # ""
        /\ df = df0
C5_Witness ==
    /\ call.fn = "cast_to_numeric" /\ call.errors = "raise" /\ out.err # ""
    /\ 1 \in ExaminedNow /\ AllParse(df0[1], NumText) /\ MissingAt(df0[1]) = {}
    /\ 2 \in ExaminedNow /\ HasUnparsable(df0[2])

\* C6: the pipeline is idempotent: a cast_dtypes call with the default
\* arguments on the table an earlier such call returned changes no column and
\* reports no change.
C6_Idempotent ==
    [][(/\ call.fn = "cast_dtypes" /\ call.downcast /\ call.use_categories /\ out.err = ""
        /\ call' = call)
       => (df' = df /\ out'.report = <<>>)]_vars

\* C10: a call under the ignore or the raise policy leaves every column with
\* the missing cells it had, at the same positions.
C10_MissingKept ==
    (call.fn # "none" /\ call.errors \in {"ignore", "raise"}) =>
        \A i \in DOMAIN df0 :
            /\ Len(df[i].vals) = Len(df0[i].vals)
            /\ MissingAt(df[i]) = MissingAt(df0[i])

Called == call.fn # "none"

\* C11: every cast_* entry point and cast_dtypes leaves the table with the
\* columns it had, under the same names and in the same order, each with as
\* many rows as before and with its missing rows where they were.
C11_ShapeKept ==
    Called =>
        /\ Len(df) = Len(df0)
        /\ \A i \in DOMAIN df0 :
              /\ df[i].name = df0[i].name
              /\ Len(df[i].vals) = Len(df0[i].vals)
              /\ MissingAt(df0[i]) \subseteq MissingAt(df[i])
C11_Witness ==
    /\ Called /\ out.err = ""
    /\ df[1].dtype # df0[1].dtype /\ df[2] = df0[2]
    /\ df[1].name = "a" /\ df[2].name = "b"
    /\ MissingAt(df0[1]) = {1}
DefaultPipeline == call.fn = "cast_dtypes" /\ call.downcast /\ call.use_categories

\* C12: a cast_dtypes call with the default arguments that returns leaves no
\* examined column with an object or string dtype; a column that was text and
\* is neither a number, a datetime, a boolean nor a timedelta is a category.
C12_NoTextSurvives ==
    (DefaultPipeline /\ out.err = "") =>
        \A i \in ExaminedNow :
            /\ ~IsTextDtype(df[i].dtype)
            /\ (IsTextDtype(df0[i].dtype) /\ df[i].vals = df0[i].vals) => df[i].dtype = "category"
C12_Witness ==
    /\ DefaultPipeline /\ out.err = ""
    /\ df0[2] = Named("b", Unparsable) /\ df[2].dtype = "category"
    /\ df0[1].dtype = "object" /\ df[1].dtype = "datetime64[ns]"
\* The numbers a text column spells, and the integer dtype of the least
\* width, unsigned or signed, that holds them all.
Spelled(c) == {NumText[c.vals[i].t] : i \in Present(c)}
SpellsNumbers(c) ==
    /\ Present(c) # {}
    /\ \A i \in Present(c) : c.vals[i].t \in NumberTexts
LeastOf(V, signed) ==
    IntDtypes[CHOOSE i \in Rows :
        /\ IsSignedRow[i] = signed
        /\ \A v \in V : Whole(min_value(i)) <= v /\ v <= Whole(max_value(i))
        /\ \A j \in Rows :
              (IsSignedRow[j] = signed
                 /\ \A v \in V : Whole(min_value(j)) <= v /\ v <= Whole(max_value(j)))
              => SourceBits[j] >= SourceBits[i]]
PickedDtype(c) ==
    LET V == Spelled(c)
    IN  IF SpellsNumbers(c)
        THEN (IF \A v \in V : v % 2 = 0
              THEN LeastOf(V, \E v \in V : v < 0)
              ELSE IF Cardinality({Float32Of(v) : v \in V}) = Cardinality(V)
                   THEN "Float32" ELSE "Float64")
        ELSE IF CellSet(c) = {Str("True"), Str("False")} THEN "boolean"
        ELSE IF Present(c) # {} /\ \A i \in Present(c) : c.vals[i].t \in DOMAIN DateText
             THEN "datetime64[ns]"
        ELSE "category"

\* C13: cast_dtype with the default arguments turns a column of texts into the
\* smallest unsigned integer dtype when the texts are whole numbers with a
\* minimum >= 0 and into the smallest signed one when the minimum is negative,
\* into Float32 when they are numbers with a fraction whose distinct count the
\* narrowing keeps, into boolean when they are "True" and "False" with no
\* missing cell, into datetime when they are timestamps, and into category
\* otherwise.
C13_PipelinePicks ==
    (op = "cast_dtype" /\ IsTextDtype(s.dtype) /\ res.err = "") =>
        res.col.dtype = PickedDtype(s)
C13_Witness ==
    /\ op = "cast_dtype" /\ s.dtype = "object" /\ res.err = ""
    /\ s.vals = <<Str("0"), NA, Str("1")>> /\ res.col.dtype = "UInt8"
\* C14: downcast_integer never raises, and returns the column as it is when
\* no row of the range table covers its [min, max] or it has no present value.
C14_NeverRaises ==
    Downcast =>
        /\ res.err = ""
        /\ CoveringRows(s) = {} => res.col = s

\* C15: the dtype downcast_integer casts a column to is unsigned exactly when
\* the column's minimum is >= 0, then the unsigned dtype of the least width
\* that covers the maximum, and the missing cells stay missing in place.
C15_UnsignedPreferred ==
    (Downcast /\ res.err = "" /\ res.col.dtype # s.dtype) =>
        LET i == RowOf(res.col.dtype)
            mn == SetMin(NumValues(s))
            mx == SetMax(NumValues(s))
        IN  /\ IsSignedRow[i] <=> mn < 0
            /\ mn >= 0 =>
                  \A j \in Rows :
                      (~IsSignedRow[j] /\ Whole(max_value(j)) >= mx) => SourceBits[j] >= SourceBits[i]
            /\ MissingAt(res.col) = MissingAt(s)
C15_Witness ==
    /\ Downcast /\ s.dtype = "Int64" /\ res.col.dtype = "UInt8"
    /\ s.vals = <<Num(Whole(1)), NA>>
    /\ res.col.vals = s.vals
\* The columns of the table before the call that the call names (all of them
\* without cols_to_check) and whose dtype is one of its dtypes_to_check.
InScope(i) ==
    /\ call.cols.all \/ df0[i].name \in call.cols.names
    /\ Selected(df0[i].dtype,
                IF call.fn = "cast_dtypes" THEN {"object", "string", "number"}
                ELSE {"object", "string"})

\* C16: a cast changes only columns that are named in cols_to_check (when it
\* is given) and have a dtype of dtypes_to_check; cast_to_category turns
\* exactly these into category, values kept, and every other column stays as
\* it was.
C16_FrameEffect ==
    Called =>
        /\ \A i \in DOMAIN df0 : ~InScope(i) => df[i] = df0[i]
        /\ (call.fn = "cast_to_category" /\ out.err = "") =>
              \A i \in DOMAIN df0 :
                  InScope(i) => (df[i].dtype = "category" /\ df[i].vals = df0[i].vals)
C16_Witness ==
    /\ call.fn = "cast_to_category" /\ call.cols = Only({"b"})
    /\ df0[1].dtype = "string" /\ df[1] = df0[1]
    /\ df0[2].dtype = "object" /\ df[2].dtype = "category"
DtypeChanged(i) == df[i].dtype # df0[i].dtype
Reported(i) == \E k \in DOMAIN out.report : out.report[k] = df0[i].name

\* C17: the change report of a call that returns names a column exactly when
\* its dtype in the returned table is not its dtype in the given one, each
\* column once, and these are the columns that were written back.
C17_ChangeReport ==
    (Called /\ out.err = "") =>
        /\ \A i \in DOMAIN df0 : Reported(i) <=> DtypeChanged(i)
        /\ \A k \in DOMAIN out.report : \E i \in DOMAIN df0 : out.report[k] = df0[i].name
        /\ \A k, m \in DOMAIN out.report : out.report[k] = out.report[m] => k = m
        /\ \A i \in DOMAIN df0 : df[i] # df0[i] => Reported(i)
C17_Witness ==
    /\ Called /\ out.err = "" /\ out.report = <<"b">>
    /\ DtypeChanged(2) /\ ~DtypeChanged(1)
    /\ 1 \in ExaminedNow
\* The same call on a table that holds column i of df0 and nothing else.
Alone(i) == Cast(CfgOf(call), <<df0[i]>>, call.cols)

\* C18: a call under errors="ignore", cast_dtypes included, returns whatever
\* its columns hold, and leaves every column as the same call would leave it
\* in a table of its own.
C18_ColumnsIndependent ==
    (Called /\ call.errors = "ignore") =>
        /\ out.err = ""
        /\ \A i \in DOMAIN df0 : df[i] = Alone(i).df[1]
\* What the parser of the call makes of a text, if anything.
Reads(t) ==
    IF call.fn = "cast_to_numeric" THEN t \in DOMAIN NumText \ NanText
    ELSE t \in DOMAIN DateText \ NanText
ValueRead(t) == IF call.fn = "cast_to_numeric" THEN NumText[t] ELSE DateText[t]

\* C19: under errors="coerce" cast_to_numeric and cast_to_datetime return a
\* table in which every examined column has the target type, each cell the
\* parser reads holding its value and every other cell (unparsable, read as
\* NaN or NaT, or missing before) missing.
C19_CoerceFillsMissing ==
    (Parsing /\ call.errors = "coerce") =>
        /\ out.err = ""
        /\ \A i \in DOMAIN df0 :
              InScope(i) =>
                  /\ ~IsTextDtype(df[i].dtype)
                  /\ \A j \in DOMAIN df0[i].vals :
                        IF IsText(df0[i].vals[j]) /\ Reads(df0[i].vals[j].t)
                        THEN /\ df[i].vals[j].k = TargetKind
                             /\ df[i].vals[j].n = ValueRead(df0[i].vals[j].t)
                        ELSE IsMissing(df[i].vals[j])
C19_Witness ==
    /\ call.fn = "cast_to_numeric" /\ call.errors = "coerce"
    /\ df0[1].dtype = "object" /\ df0[1].vals = <<Str("True"), Str("1")>>
    /\ df[1].vals = <<NA, Num(Whole(1))>>
\* C20: the error of a cast that fails under errors="raise" names the column
\* that failed and the type the cast was after.
C20_ErrorNamesColumn ==
    (Parsing /\ call.errors = "raise" /\ out.err # "") =>
        {"column", "target"} \subseteq DOMAIN out.detail
CastDtypeDone ==
    op \in {CastDtypeCall(d, u) : d \in BOOLEAN, u \in BOOLEAN}

\* C21: cast_dtype returns a category only for a column that was text and
\* that the numeric, the datetime and the boolean attempt, tried before it,
\* each left as it was.
C21_CategoryLast ==
    (CastDtypeDone /\ res.err = "" /\ res.col.dtype = "category") =>
        /\ IsTextDtype(s.dtype)
        /\ ~AllParse(s, NumText)
        /\ ~AllParse(s, DateText)
        /\ CellSet(s) # {Str("True"), Str("False")}
        /\ res.col.vals = s.vals
C21_Witness ==
    /\ op = "cast_dtype(downcast=False)" /\ res.col.dtype = "category"
    /\ s.vals = <<Str("True"), NA, Str("False")>>
\* A column of an integer dtype with a present value, after a downcast_integer
\* call that found it integer-like; the dtype of the least width for its values.
IntDowncast == Downcast /\ ie = "yes" /\ IsIntDtype(s.dtype) /\ NumValues(s) # {}
SelectedDtype == LeastOf(NumValues(s), \E v \in NumValues(s) : v < 0)
WidthOf(d) == SourceBits[RowOf(d)]

\* C22 as stated: downcast_integer returns the column as it is whenever its
\* current width is the width of the dtype selected for it.
C22_Original ==
    (IntDowncast /\ WidthOf(s.dtype) = WidthOf(SelectedDtype)) => res.col = s

\* C22 as amended: downcast_integer returns the column as it is when its
\* dtype is the selected dtype, and casts it to the selected dtype otherwise,
\* also when the two have the same width and differ in signedness.
C22_NoOpSameDtype ==
    IntDowncast =>
        /\ res.err = ""
        /\ s.dtype = SelectedDtype => res.col = s
        /\ s.dtype # SelectedDtype => (res.col.dtype = SelectedDtype /\ res.col.vals = s.vals)
C22_Witness ==
    /\ IntDowncast /\ s.dtype = "Int16" /\ res.col = s
    /\ SetMin(NumValues(s)) < Whole(min_value(RowOf("Int8")))

\* C23 as stated: whatever calls the instance served before, downcast_integer
\* gives for a column what a new instance gives for it.
C23_ProbeStateless == Downcast => res = downcast_integer("unset", s)

\* C27: downcast_integer of a column of an integer dtype never returns a dtype
\* of more bits than the column has; the signedness may change at equal width.
C27_NeverWidens ==
    (Downcast /\ res.err = "" /\ IsIntDtype(s.dtype)) =>
        /\ IsIntDtype(res.col.dtype)
        /\ WidthOf(res.col.dtype) <= WidthOf(s.dtype)
C27_Witness ==
    /\ Downcast /\ res.err = ""
    /\ s.dtype = "Int8" /\ res.col.dtype = "UInt8"

\* C24: cast_to_numeric of a numeric column rendered as text, in a string
\* or an object column, gives a numeric column with the original value at
\* every position and a missing cell where one was.
RenderedCast == op \in {"cast_to_numeric(astype(string))", "cast_to_numeric(astype(object))"}
C24_NumericRoundTrip ==
    RenderedCast =>
        /\ res.err = ""
        /\ res.col.vals = s.vals
        /\ Present(s) # {} => ~IsTextDtype(res.col.dtype)
C24_Witness ==
    /\ op = "cast_to_numeric(astype(string))"
    /\ s = Column("Float64", <<Num(3), NA>>)
    /\ res.col = s

\* C25: cast_to_category keeps what a text column shows: the result, decoded,
\* has the same string at every position and a missing cell exactly where
\* the column had one.
C25_CategoryRoundTrip ==
    (Called /\ call.fn = "cast_to_category" /\ out.err = "") =>
        \A i \in DOMAIN df0 :
            InScope(i) =>
                /\ df[i].dtype = "category"
                /\ MissingAt(df[i]) = MissingAt(df0[i])
                /\ \A j \in Present(df0[i]) :
                      IsText(df[i].vals[j]) /\ df[i].vals[j].t = df0[i].vals[j].t
C25_Witness ==
    /\ call.fn = "cast_to_category" /\ out.err = ""
    /\ InScope(1) /\ df[1].dtype = "category"
    /\ df0[1].vals = <<Str("True"), NA>> /\ df[1].vals = df0[1].vals
    /\ InScope(2) /\ df[2].vals = <<Str("Y"), Str("1")>>

\* C26: a cast that returns gives back the table object it was given, and
\* the caller's table then shows what the returned one shows: the new dtype
\* of every column of the change report.
C26_InPlace ==
    (Called /\ out.err = "") =>
        /\ out.ret = "df"
        /\ df = out.returned
        /\ \A i \in DOMAIN df0 : Reported(i) => df[i].dtype # df0[i].dtype
C26_Witness ==
    /\ call.fn = "cast_to_boolean" /\ out.err = "" /\ out.ret = "df"
    /\ out.report = <<"a">>
    /\ df0[1].dtype = "object" /\ df[1].dtype = "boolean"

\* C28 as stated: safe_partial binds the positional arguments and exactly the
\* keyword arguments that name a parameter of func, and all of them if and
\* only if func has a ** parameter.
C28_KeywordsFiltered ==
    test.made =>
        /\ test.func = func /\ test.args = args
        /\ DOMAIN test.keywords =
              (IF func.varkw # "" THEN DOMAIN kws ELSE DOMAIN kws \cap func.params)
        /\ \A k \in DOMAIN test.keywords : test.keywords[k] = kws[k]

\* The last call of the wrapper, the file it is about, and whether the call
\* asked for the cache.
LastCall == log[Len(log)]
FileOf(e) == create_hashed_filename("fn", e.today, e.args, e.kwargs)
Cached(e) == Truthy(KwGet(e.kwargs, "cache_to_disk", Bool(FALSE)))
Consecutive == Len(log) = 2 /\ Cached(log[1]) /\ Cached(log[2]) /\ log[1].today = log[2].today

\* C29 as stated: of two consecutive cached calls on one date with equal
\* arguments, the second does not invoke the wrapped function.
C29_Original ==
    (Consecutive /\ log[1].args = log[2].args
       /\ KwItems(log[1].kwargs) = KwItems(log[2].kwargs)) => log[2].invoked = 0

\* C29 as amended: a cached call whose file exists returns what the file
\* stores and does not invoke the function; one whose file does not exist
\* invokes it once, stores the result in the file and returns it; a call
\* without the cache keyword invokes it and touches no file; and of two
\* consecutive cached calls on one date with the same positional arguments
\* and the same keyword arguments in the same order, the second returns the
\* result of the first without invoking the function.
C29_CacheOnce ==
    Len(log) > 0 =>
        LET e == LastCall
        IN  /\ ~Cached(e) =>
                  /\ e.invoked = 1 /\ e.read = {} /\ e.wrote = {} /\ disk = e.before
                  /\ e.result = fn_call(e.args, e.kwargs, e.result.world)
            /\ (Cached(e) /\ FileOf(e) \in DOMAIN e.before) =>
                  /\ e.invoked = 0 /\ e.result = e.before[FileOf(e)]
                  /\ e.wrote = {} /\ disk = e.before
            /\ (Cached(e) /\ FileOf(e) \notin DOMAIN e.before) =>
                  /\ e.invoked = 1 /\ e.wrote = {FileOf(e)}
                  /\ DOMAIN disk = DOMAIN e.before \cup {FileOf(e)}
                  /\ disk[FileOf(e)] = e.result
                  /\ \A f \in DOMAIN e.before : disk[f] = e.before[f]
            /\ (Consecutive /\ log[1].args = log[2].args /\ log[1].kwargs = log[2].kwargs) =>
                  log[2].invoked = 0 /\ log[2].result = log[1].result
C29_Witness ==
    /\ Consecutive /\ log[1].args = log[2].args /\ log[1].kwargs = log[2].kwargs
    /\ log[1].invoked = 1 /\ log[2].invoked = 0
    /\ log[2].result.world = 0 /\ world = 1

\* C30 as stated: with drop_holidays=True the flag of a timestamp is False
\* when its calendar date is a Saturday, a Sunday or a holiday of the range of
\* the Series, at any time of day, and True otherwise; and
\* filter_to_business_dates keeps the rows flagged True.
OnHoliday(ts) ==
    \E h \in get_holiday_dates(SeriesMin(dt_series), SeriesMax(dt_series)) : h.day = ts.day
C30_BusinessDayFlag ==
    (bday.fn # "none" /\ bday.drop_holidays) =>
        /\ \A i \in DOMAIN dt_series :
              bday.flag[i] = ~(day_of_week(dt_series[i]) >= 5 \/ OnHoliday(dt_series[i]))
        /\ bday.fn = "filter_to_business_dates" => bday.kept = Loc(dt_series, bday.flag)

====
